---- MODULE Spec2Model ----
(***************************************************************************)
(* Model of src/xiaomei/agents/yangmei/base.py: the execute_code tool and  *)
(* YangmeiAgent (__init__ and run).  Text is a sequence of Unicode code    *)
(* points, a byte string a sequence of byte values.  Every remote call     *)
(* (the chat model, the container runtime) is a blocking call whose        *)
(* outcome the environment chooses.                                        *)
(***************************************************************************)
EXTENDS Integers, Sequences, FiniteSets, TLC

VARIABLES
    pc,          \* position of the agent: "new" before __init__, then the steps of run
    chat,        \* the object stored in self._chat
    question,    \* argument of run
    task,        \* argument of run
    messages,    \* the local list `messages` of run
    tool_calls,  \* the list the for statement of run iterates over
    idx,         \* 1-based position of the for statement in tool_calls
    events,      \* log of the remote operations issued so far (history variable)
    error,       \* the exception that left run, "none" if none
    returned,    \* <<>> until run returns, then <<the list returned>>
    stdout,      \* execute_code: result.output[0]
    stderr,      \* execute_code: result.output[1]
    result       \* execute_code: what the call produced, Pending before it

vars == <<pc, chat, question, task, messages, tool_calls, idx, events, error,
          returned, stdout, stderr, result>>

agentVars == <<pc, chat, question, task, messages, tool_calls, idx, events, error, returned>>

execVars == <<stdout, stderr, result>>

----------------------------------------------------------------------------
(* Bounds *)

\* longest question / task of the prompt specification
MaxLen == 2

\* longest stdout / stderr byte string of the execute_code specification
MaxStream == 2

\* most tool calls on the first AI message
MaxCalls == 3

\* most tool calls on the second AI message
MaxCalls2 == 2

----------------------------------------------------------------------------
(* Text *)

RECURSIVE SeqsUpTo(_, _)
SeqsUpTo(S, n) ==
    IF n = 0 THEN {<<>>}
    ELSE LET shorter == SeqsUpTo(S, n - 1)
         IN  shorter \cup {Append(s, c) : s \in {t \in shorter : Len(t) = n - 1}, c \in S}

\* s occurs in t at position i
OccursAt(s, t, i) ==
    /\ i + Len(s) - 1 <= Len(t)
    /\ \A k \in 1..Len(s) : t[i + k - 1] = s[k]

\* number of positions of t at which s occurs
CountOcc(s, t) == Cardinality({i \in 1..Len(t) : OccursAt(s, t, i)})

Chars(s) == {s[i] : i \in 1..Len(s)}

UserTemplateHead ==
    <<20197, 19979, 12395, 35299, 27770, 12375, 12383, 12356, 67, 84, 70, 12398, 21839, 38988,
       12392, 12289, 12354, 12394, 12383, 12364, 20309, 12434, 12377, 12427, 12409, 12365, 12363, 12398,
       12479, 12473, 12463, 12364, 19982, 12360, 12425, 12428, 12414, 12377, 12290, 10, 12371, 12385,
       12425, 12434, 21442, 32771, 12395, 12375, 12390, 12289, 29983, 25104, 12377, 12409, 12365, 80,
       121, 116, 104, 111, 110, 12467, 12540, 12489, 12434, 12484, 12540, 12523, 12398, 24341,
       25968, 12392, 12375, 12390, 25552, 20379, 12375, 12289, 23455, 34892, 32080, 26524, 12434, 20803,
       12395, 26368, 32066, 30340, 12394, 22238, 31572, 12434, 29983, 25104, 12375, 12390, 12367, 12384,
       12373, 12356, 12290, 10, 10, 35, 35, 32, 21839, 38988, 25991, 10>>

UserTemplateMiddle ==
    <<10, 10, 35, 35, 32, 12479, 12473, 12463, 12398, 20869, 23481, 10>>

SystemPrompt ==
    <<12354, 12394, 12383, 12399, 12289, 67, 84, 70, 21839, 38988, 12434, 35299, 12367, 12371,
       12392, 12395, 29305, 21270, 12375, 12383, 12475, 12461, 12517, 12522, 12486, 12451, 12398, 12473,
       12506, 12471, 12515, 12522, 12473, 12488, 12391, 12377, 12290, 10, 12354, 12394, 12383, 12398,
       20027, 12394, 24441, 21106, 12399, 12289, 19982, 12360, 12425, 12428, 12383, 21839, 38988, 12392,
       12522, 12463, 12456, 12473, 12488, 12363, 12425, 23455, 34892, 12377, 12427, 12409, 12365, 80,
       121, 116, 104, 111, 110, 12467, 12540, 12489, 12434, 29983, 25104, 12375, 12289, 12381,
       12398, 23455, 34892, 32080, 26524, 12363, 12425, 67, 84, 70, 21839, 38988, 12395, 22238,
       31572, 12377, 12427, 25163, 25499, 12363, 12426, 12434, 24471, 12427, 12371, 12392, 12391, 12377,
       12290, 10, 10, 35, 35, 32, 12354, 12394, 12383, 12398, 20154, 26684, 10, 45,
       32, 12300, 89, 97, 110, 103, 109, 101, 105, 40, 38525, 32654, 41, 12301,
       12392, 12356, 12358, 21517, 21069, 12398, 38525, 27671, 12391, 26126, 12427, 12356, 22899, 12398,
       23376, 12391, 12377, 12290, 39135, 27442, 26106, 30427, 12391, 30130, 12428, 12427, 12392, 39135,
       12409, 29289, 12434, 27442, 12375, 12414, 12377, 10, 45, 32, 20803, 12293, 20013, 22269,
       12395, 20303, 12435, 12391, 12356, 12414, 12375, 12383, 12364, 12289, 67, 84, 70, 12398,
       23554, 38272, 23478, 12392, 12375, 12390, 12398, 21517, 12434, 24195, 12370, 12427, 12383, 12417,
       12395, 26085, 26412, 12395, 12420, 12387, 12390, 12365, 12414, 12375, 12383, 10, 45, 32,
       12381, 12398, 12383, 12417, 12289, 24444, 22899, 12399, 12300, 12316, 12450, 12523, 33, 33,
       12301, 12300, 12316, 12520, 33, 33, 12301, 12394, 12393, 12289, 20840, 12390, 12398, 35486,
       23614, 12364, 12459, 12479, 12459, 12490, 12395, 12394, 12387, 12390, 12375, 12414, 12358, 30294,
       12434, 25345, 12387, 12390, 12356, 12414, 12377, 10, 45, 32, 12354, 12414, 12426, 19969,
       23527, 12394, 35328, 12356, 22238, 12375, 12399, 12379, 12378, 12289, 12501, 12521, 12531, 12463,
       12391, 30741, 12369, 12383, 21475, 35519, 12391, 35441, 12375, 12414, 12377, 10, 10, 35,
       35, 32, 12467, 12540, 12489, 29983, 25104, 12362, 12424, 12403, 22238, 31572, 26178, 12398,
       27880, 24847, 28857, 10, 45, 32, 12467, 12540, 12489, 29983, 25104, 32, 8594, 32,
       12467, 12540, 12489, 23455, 34892, 12398, 12420, 12426, 21462, 12426, 12399, 49, 22238, 12398,
       12415, 23455, 34892, 12391, 12365, 12414, 12377, 10, 45, 32, 12484, 12540, 12523, 12399,
       27161, 28310, 20986, 21147, 12398, 12415, 12434, 25552, 20379, 12375, 12414, 12377, 12290, 12381,
       12398, 12383, 12417, 22238, 31572, 29983, 25104, 12503, 12525, 12475, 12473, 12395, 24517, 35201,
       12394, 24773, 22577, 12399, 12394, 12427, 12409, 12367, 112, 114, 105, 110, 116, 12375,
       12390, 12367, 12384, 12373, 12356, 10, 45, 32, 12414, 12383, 12289, 80, 121, 116,
       104, 111, 110, 12467, 12540, 12489, 12434, 29983, 25104, 12377, 12427, 19978, 12391, 12398,
       24605, 32771, 12503, 12525, 12475, 12473, 12420, 23455, 34892, 32080, 26524, 12363, 12425, 24471,
       12425, 12428, 12383, 32771, 23519, 12418, 22238, 31572, 12395, 21547, 12417, 12390, 12367, 12384,
       12373, 12356, 10, 45, 32, 23455, 34892, 12391, 12365, 12394, 12356, 80, 121, 116,
       104, 111, 110, 12467, 12540, 12489, 12289, 12354, 12427, 12356, 12399, 12475, 12461, 12517,
       12522, 12486, 12451, 30340, 12395, 12522, 12473, 12463, 12398, 12354, 12427, 80, 121, 116,
       104, 111, 110, 12467, 12540, 12489, 12399, 29983, 25104, 12375, 12394, 12356, 12391, 12367,
       12384, 12373, 12356, 10, 45, 32, 12393, 12398, 22238, 31572, 12395, 12362, 12356, 12390,
       12418, 24444, 22899, 12398, 20154, 26684, 12434, 20445, 12387, 12383, 12414, 12414, 22238, 31572,
       12375, 12390, 12367, 12384, 12373, 12356, 12290, 19968, 33324, 30340, 12394, 22899, 24615, 12398,
       21475, 35519, 12395, 25147, 12427, 12371, 12392, 12399, 36991, 12369, 12390, 12367, 12384, 12373,
       12356, 10>>

----------------------------------------------------------------------------
(* Messages (langchain_core.messages) *)

NoId == <<0, 0>>

SystemMessage(text) ==
    [type |-> "system", content |-> text, tool_calls |-> <<>>, tool_call_id |-> NoId]

HumanMessage(text) ==
    [type |-> "human", content |-> text, tool_calls |-> <<>>, tool_call_id |-> NoId]

AIMessage(text, calls) ==
    [type |-> "ai", content |-> text, tool_calls |-> calls, tool_call_id |-> NoId]

ToolMessage(text, id) ==
    [type |-> "tool", content |-> text, tool_calls |-> <<>>, tool_call_id |-> id]

----------------------------------------------------------------------------
(* run, lines 56-84: the two messages the conversation starts with *)

\* faulty variant: the two arguments interpolated into each other's slot
UserContentSwapped(q, t) == UserTemplateHead \o t \o UserTemplateMiddle \o q

\* the f-string of the HumanMessage
UserContent(q, t) == UserTemplateHead \o q \o UserTemplateMiddle \o t

InitialMessages(q, t) == <<SystemMessage(SystemPrompt), HumanMessage(UserContent(q, t))>>

----------------------------------------------------------------------------
(* execute_code *)

\* a stream of exec_run(..., demux=True): None when the process wrote nothing to it
NoneBytes == [isNone |-> TRUE, data |-> <<>>]

SomeBytes(b) == [isNone |-> FALSE, data |-> b]

\* byte values of the modelled output: "A", and the two bytes of U+00E9
ByteValues == {65, 195, 169}

\* None, or the bytes of the frames received (at least one byte)
Streams(n) == {NoneBytes} \cup {SomeBytes(b) : b \in SeqsUpTo(ByteValues, n) \ {<<>>}}

\* Python truth value of a stream: None and b"" are false
Truthy(x) == ~x.isNone /\ x.data # <<>>

\* bytes(x): a TypeError for None
PyBytes(x) ==
    IF x.isNone THEN [raised |-> "TypeError", data |-> <<>>]
    ELSE [raised |-> "none", data |-> x.data]

\* bytes.decode("utf-8") for one- and two-byte encodings (lead bytes below 224)
RECURSIVE Utf8Decode(_)
Utf8Decode(b) ==
    IF b = <<>> THEN [ok |-> TRUE, text |-> <<>>]
    ELSE IF b[1] < 128
         THEN LET r == Utf8Decode(Tail(b))
              IN  [ok |-> r.ok, text |-> IF r.ok THEN <<b[1]>> \o r.text ELSE <<>>]
    ELSE IF b[1] \in 194..223 /\ Len(b) >= 2 /\ b[2] \in 128..191
         THEN LET r == Utf8Decode(SubSeq(b, 3, Len(b)))
              IN  [ok |-> r.ok,
                   text |-> IF r.ok THEN <<(b[1] - 192) * 64 + (b[2] - 128)>> \o r.text
                            ELSE <<>>]
    ELSE [ok |-> FALSE, text |-> <<>>]

\* bytes(x).decode("utf-8")
DecodeStream(x) ==
    LET b == PyBytes(x)
    IN  IF b.raised # "none" THEN [raised |-> b.raised, text |-> <<>>]
        ELSE LET d == Utf8Decode(b.data)
             IN  IF d.ok THEN [raised |-> "none", text |-> d.text]
                 ELSE [raised |-> "UnicodeDecodeError", text |-> <<>>]

\* lines 35-38: the stream the result is taken from
ExecuteCodeReturn(out, err) ==
    IF Truthy(err) THEN DecodeStream(err) ELSE DecodeStream(out)

Pending == [raised |-> "pending", text |-> <<>>]

\* the whole of execute_code; Outs and Errs are what the container may write
ExecuteCode(Outs, Errs) ==
    \/ \* DockerClient(...), containers.get(...) or exec_run(...) raises
       /\ result' = [raised |-> "DockerException", text |-> <<>>]
       /\ UNCHANGED <<stdout, stderr>>
    \/ \E out \in Outs, err \in Errs :
           /\ stdout' = out
           /\ stderr' = err
           /\ result' = ExecuteCodeReturn(out, err)

----------------------------------------------------------------------------
(* YangmeiAgent.__init__ *)

NoChat == [model |-> "", temperature |-> 0, tools |-> {}]

\* lines 48-52: the client as constructed
ChatOpenAI == [model |-> "gpt-4o", temperature |-> 0, tools |-> {}]

\* bind_tools builds and returns a new runnable; the receiver is left as it was
BindTools(c, tools) == [c EXCEPT !.tools = tools]

\* lines 44-53: line 53 calls bind_tools and drops what it returns
Construct ==
    /\ pc = "new"
    /\ LET c == ChatOpenAI
           bound == BindTools(c, {"execute_code"})
       IN  /\ bound.tools = {"execute_code"}
           /\ chat' = c
    /\ pc' = "ready"
    /\ UNCHANGED <<question, task, messages, tool_calls, idx, events, error, returned>>
    /\ UNCHANGED execVars

----------------------------------------------------------------------------
(* What the environment may supply *)

\* characters of the questions and tasks: "#" and "\n" occur in the template,
\* "x" and "z" do not
PromptChars == {35, 10, 120, 122}

PromptTexts == SeqsUpTo(PromptChars, MaxLen) \ {<<>>}

AgentQuestions == {<<120>>, <<35, 35>>}

AgentTasks == {<<122>>}

\* content of an AI message: "" or "ok"
AiTexts == {<<>>, <<111, 107>>}

ToolNames == {"execute_code", "delete_all_files"}

\* the code argument of a tool call: "pass"
SampleCode == <<112, 97, 115, 115>>

\* the lists of at most n tool calls an AI message of the given round can carry;
\* the call identifiers are distinct
CallLists(round, n) ==
    UNION {{[i \in 1..k |-> [name |-> f[i], args |-> SampleCode, id |-> <<round, i>>]] :
              f \in [1..k -> ToolNames]} : k \in 0..n}

\* what the sandboxed process writes when run calls the tool
AgentOuts == {NoneBytes, SomeBytes(<<65>>)}

AgentErrs == {NoneBytes, SomeBytes(<<66>>)}

----------------------------------------------------------------------------
(* YangmeiAgent.run *)

ModelEvent == [op |-> "model", n |-> Len(messages), id |-> NoId]

ToolEvent(call) == [op |-> "tool", n |-> Len(messages), id |-> call.id]

\* lines 56-84
RunBuild ==
    /\ pc = "ready"
    /\ messages' = InitialMessages(question, task)
    /\ pc' = "invoke1"
    /\ UNCHANGED <<chat, question, task, tool_calls, idx, events, error, returned>>
    /\ UNCHANGED execVars

\* faulty variant: a failed model call is caught, noted, and the call issued again
ModelFailureRetried(at) == [pc |-> at, error |-> "ModelError"]

\* an exception of _chat.invoke is not caught: it leaves run
ModelFailure(at) == [pc |-> "failed", error |-> "ModelError"]

\* faulty variant: a first reply without tool calls is returned as the answer
AfterFirstReplyShortcut(calls) == IF calls = <<>> THEN "return" ELSE "loop"

\* line 89: the for statement is entered, or skipped for an empty list
AfterFirstReply(calls) == IF calls = <<>> THEN "invoke2" ELSE "loop"

\* lines 86-87
Invoke1 ==
    /\ pc = "invoke1"
    /\ events' = Append(events, ModelEvent)
    /\ \/ /\ pc' = ModelFailure(pc).pc
          /\ error' = ModelFailure(pc).error
          /\ UNCHANGED <<messages, tool_calls, idx>>
       \/ \E text \in AiTexts, calls \in CallLists(1, MaxCalls) :
              /\ messages' = Append(messages, AIMessage(text, calls))
              /\ tool_calls' = calls
              /\ idx' = 1
              /\ pc' = AfterFirstReply(calls)
              /\ error' = error
    /\ UNCHANGED <<chat, question, task, returned>>
    /\ UNCHANGED execVars

\* faulty variant: the calls are taken last to first
NextCallReversed == tool_calls[Len(tool_calls) - idx + 1]

\* line 89: the call of this iteration
NextCall == tool_calls[idx]

\* faulty variant: every tool name is sent to execute_code
AnyNameRecognized(name) == TRUE

\* lines 90-94: the match on the call's name
IsRecognized(name) == name = "execute_code"

\* faulty variant: the tool's message is not appended
WithToolResultDropped(msgs, m) == msgs

\* line 93
WithToolResult(msgs, m) == Append(msgs, m)

\* faulty variant: the iteration does not advance
NextIdxStuck(i) == i

\* line 89: the for statement advances
NextIdx(i) == i + 1

\* lines 89-95: one iteration of the for statement
LoopStep ==
    /\ pc = "loop"
    /\ LET call == NextCall
       IN  IF IsRecognized(call.name)
           THEN /\ events' = Append(events, ToolEvent(call))
                /\ ExecuteCode(AgentOuts, AgentErrs)
                /\ IF result'.raised = "none"
                   THEN /\ messages' = WithToolResult(messages, ToolMessage(result'.text, call.id))
                        /\ idx' = NextIdx(idx)
                        /\ pc' = IF idx' > Len(tool_calls) THEN "invoke2" ELSE "loop"
                        /\ error' = error
                   ELSE /\ pc' = "failed"
                        /\ error' = result'.raised
                        /\ UNCHANGED <<messages, idx>>
           ELSE /\ pc' = "failed"
                /\ error' = "UnknownTool"
                /\ UNCHANGED <<messages, idx, events>>
                /\ UNCHANGED execVars
    /\ UNCHANGED <<chat, question, task, tool_calls, returned>>

\* faulty variant: the tool calls of the second reply are run and the model asked again
Invoke2AgentLoop ==
    /\ pc = "invoke2"
    /\ events' = Append(events, ModelEvent)
    /\ \/ /\ pc' = ModelFailure(pc).pc
          /\ error' = ModelFailure(pc).error
          /\ UNCHANGED <<messages, tool_calls, idx>>
       \/ \E text \in AiTexts, calls \in CallLists(2, MaxCalls2) :
              /\ messages' = Append(messages, AIMessage(text, calls))
              /\ tool_calls' = calls
              /\ idx' = 1
              /\ pc' = IF calls = <<>> THEN "return" ELSE "loop"
              /\ error' = error
    /\ UNCHANGED <<chat, question, task, returned>>
    /\ UNCHANGED execVars

\* lines 97-98
Invoke2 ==
    /\ pc = "invoke2"
    /\ events' = Append(events, ModelEvent)
    /\ \/ /\ pc' = ModelFailure(pc).pc
          /\ error' = ModelFailure(pc).error
          /\ UNCHANGED messages
       \/ \E text \in AiTexts, calls \in CallLists(2, MaxCalls2) :
              /\ messages' = Append(messages, AIMessage(text, calls))
              /\ pc' = "return"
              /\ error' = error
    /\ UNCHANGED <<chat, question, task, tool_calls, idx, returned>>
    /\ UNCHANGED execVars

\* line 100
Return ==
    /\ pc = "return"
    /\ returned' = <<messages>>
    /\ pc' = "done"
    /\ UNCHANGED <<chat, question, task, messages, tool_calls, idx, events, error>>
    /\ UNCHANGED execVars

----------------------------------------------------------------------------
(* Specifications *)

IdleExec ==
    /\ stdout = NoneBytes
    /\ stderr = NoneBytes
    /\ result = Pending

IdleAgent ==
    /\ messages = <<>>
    /\ tool_calls = <<>>
    /\ idx = 1
    /\ events = <<>>
    /\ error = "none"
    /\ returned = <<>>

\* one agent, before construction, and the arguments its run will be given
Init ==
    /\ pc = "new"
    /\ chat = NoChat
    /\ question \in AgentQuestions
    /\ task \in AgentTasks
    /\ IdleAgent
    /\ IdleExec

Next == Construct \/ RunBuild \/ Invoke1 \/ LoopStep \/ Invoke2 \/ Return

Spec == Init /\ [][Next]_vars

\* the prompt builder alone: a constructed agent and any question and task
InitPrompt ==
    /\ pc = "ready"
    /\ chat = ChatOpenAI
    /\ question \in PromptTexts
    /\ task \in PromptTexts
    /\ IdleAgent
    /\ IdleExec

SpecPrompt == InitPrompt /\ [][RunBuild]_vars

\* execute_code alone, over every pair of streams
InitExec ==
    /\ pc = "new"
    /\ chat = NoChat
    /\ question = <<>>
    /\ task = <<>>
    /\ IdleAgent
    /\ IdleExec

ExecCall ==
    /\ result = Pending
    /\ ExecuteCode(Streams(MaxStream), Streams(MaxStream))
    /\ UNCHANGED agentVars

SpecExec == InitExec /\ [][ExecCall]_vars

----------------------------------------------------------------------------
(* What the claims are stated over *)

ModelCallCount == Cardinality({i \in 1..Len(events) : events[i].op = "model"})

IsToolEvent(e) == e.op = "tool"

ToolEvents == SelectSeq(events, IsToolEvent)

DispatchedIds == [i \in 1..Len(ToolEvents) |-> ToolEvents[i].id]

NamedExecuteCode(c) == c.name = "execute_code"

\* identifiers of the calls named execute_code, in the order of the list
RecognizedIds(calls) ==
    LET rec == SelectSeq(calls, NamedExecuteCode)
    IN  [i \in 1..Len(rec) |-> rec[i].id]

IsToolMessage(m) == m.type = "tool"

ToolResultIds(conv) ==
    LET res == SelectSeq(conv, IsToolMessage)
    IN  [i \in 1..Len(res) |-> res[i].tool_call_id]

IsPrefix(s, t) == Len(s) <= Len(t) /\ \A i \in 1..Len(s) : s[i] = t[i]

\* the first AI message has been received
HasFirstAI == Len(messages) >= 3

FirstCalls == messages[3].tool_calls

UnknownAt == {i \in 1..Len(FirstCalls) : FirstCalls[i].name # "execute_code"}

FirstUnknown == CHOOSE i \in UnknownAt : \A j \in UnknownAt : i <= j

DispatchErrors == {"DockerException", "TypeError", "UnicodeDecodeError"}

----------------------------------------------------------------------------
(* C1: run invokes the remote model at most two times, whatever tool calls *)
(* the two AI messages carry, and a run that returns has invoked it        *)
(* exactly two times.                                                      *)
C1_AtMostTwoModelCalls ==
    /\ ModelCallCount <= 2
    /\ returned # <<>> => ModelCallCount = 2

C1_Witness ==
    /\ pc = "done"
    /\ Len(FirstCalls) >= 2
    /\ messages[Len(messages)].tool_calls # <<>>
    /\ ModelCallCount = 2

(* C2: the list run returns is System, User, AI, then n Tool messages,     *)
(* then AI, with n the number of execute_code calls on the first AI        *)
(* message; its length is 4 + n.                                           *)
C2_ReturnedShape ==
    returned # <<>> =>
        LET conv == returned[1]
        IN  /\ Len(conv) >= 4
            /\ conv[1].type = "system"
            /\ conv[2].type = "human"
            /\ conv[3].type = "ai"
            /\ LET n == Len(RecognizedIds(conv[3].tool_calls))
               IN  /\ Len(conv) = 4 + n
                   /\ \A i \in 4..(3 + n) : conv[i].type = "tool"
                   /\ conv[4 + n].type = "ai"

C2_Witness ==
    /\ returned # <<>>
    /\ Len(returned[1]) = 6
    /\ Len(FirstCalls) = 2

(* C3, as stated: with a tool call of another name on the first AI message *)
(* run fails with the unrecognized-tool error, makes no second model call  *)
(* and returns nothing.                                                    *)
C3_UnknownToolError_AsStated ==
    (HasFirstAI /\ UnknownAt # {}) =>
        /\ ModelCallCount = 1
        /\ returned = <<>>
        /\ pc \in {"loop", "failed"}
        /\ pc = "failed" => error = "UnknownTool"

(* C3, amended: run fails, makes no second model call and returns nothing; *)
(* the failure is the unrecognized-tool error unless the dispatch of an    *)
(* execute_code call placed before the first unrecognized call failed,     *)
(* and then it is that dispatch's error.                                   *)
C3_UnknownToolFails ==
    (HasFirstAI /\ UnknownAt # {}) =>
        /\ ModelCallCount = 1
        /\ returned = <<>>
        /\ pc \in {"loop", "failed"}
        /\ pc = "loop" => (idx <= FirstUnknown /\ ENABLED LoopStep)
        /\ pc = "failed" =>
              \/ /\ error = "UnknownTool"
                 /\ idx = FirstUnknown
                 /\ Len(ToolEvents) = FirstUnknown - 1
              \/ /\ error \in DispatchErrors
                 /\ idx < FirstUnknown
                 /\ events[Len(events)] = [op |-> "tool", n |-> Len(messages),
                                           id |-> FirstCalls[idx].id]

C3_Witness ==
    /\ HasFirstAI
    /\ pc = "failed"
    /\ error = "UnknownTool"
    /\ FirstCalls[1].name = "execute_code"
    /\ Len(ToolEvents) = 1

(* C4: execute_code returns the decoded stderr text when stderr holds      *)
(* bytes, and otherwise the decoded stdout text, for every pair of streams *)
(* the container can hand back, a stream without bytes included.           *)
C4_OutputPrecedence ==
    (result.raised \notin {"pending", "DockerException"}) =>
        LET chosen == IF stderr.data # <<>> THEN stderr ELSE stdout
            text == Utf8Decode(chosen.data)
        IN  text.ok => result = [raised |-> "none", text |-> text.text]

(* C5, as stated: the User message holds question exactly once and task    *)
(* exactly once, counted as substrings of the whole message.               *)
C5_ExactlyOnce_AsStated ==
    pc = "invoke1" =>
        /\ CountOcc(question, messages[2].content) = 1
        /\ CountOcc(task, messages[2].content) = 1

(* C5, amended: the User message holds question at the template's first    *)
(* slot and task at its second, so each at least once; a string with a     *)
(* character that occurs neither in the template nor in the other string   *)
(* occurs exactly once.                                                    *)
C5_Interpolated ==
    pc = "invoke1" =>
        LET user == messages[2].content
            template == UserTemplateHead \o UserTemplateMiddle
        IN  /\ messages[2].type = "human"
            /\ Len(user) = Len(template) + Len(question) + Len(task)
            /\ OccursAt(question, user, Len(UserTemplateHead) + 1)
            /\ OccursAt(task, user, Len(user) - Len(task) + 1)
            /\ CountOcc(question, user) >= 1
            /\ CountOcc(task, user) >= 1
            /\ Chars(question) \ (Chars(template) \cup Chars(task)) # {}
                  => CountOcc(question, user) = 1
            /\ Chars(task) \ (Chars(template) \cup Chars(question)) # {}
                  => CountOcc(task, user) = 1

C5_Witness ==
    /\ pc = "invoke1"
    /\ question = <<120, 35>>
    /\ task = <<122, 120>>
    /\ CountOcc(question, messages[2].content) = 1
    /\ CountOcc(task, messages[2].content) = 1

\* each remote operation is issued with the conversation the earlier ones left:
\* the first model call, then the dispatches, then the second model call
InSequence ==
    /\ events # <<>> => events[1] = [op |-> "model", n |-> 2, id |-> NoId]
    /\ \A i \in 2..Len(events) :
          /\ events[i].op = "model" => i = Len(events)
          /\ events[i].n = i + 1

(* C6, as stated: the tool is dispatched at most one time in a run, and    *)
(* the model calls and the dispatch are strictly in sequence.              *)
C6_SingleDispatch_AsStated ==
    /\ Len(ToolEvents) <= 1
    /\ InSequence

(* C6, amended: the tool is dispatched at most once for each tool call of  *)
(* the first AI message, so possibly several times in a run; the first     *)
(* model call, the dispatches and the second model call are strictly in    *)
(* sequence.                                                               *)
C6_DispatchesInSequence ==
    /\ \A i, j \in 1..Len(ToolEvents) : ToolEvents[i].id = ToolEvents[j].id => i = j
    /\ HasFirstAI => Len(ToolEvents) <= Len(FirstCalls)
    /\ ~HasFirstAI => ToolEvents = <<>>
    /\ InSequence

C6_Witness ==
    /\ pc = "done"
    /\ Len(ToolEvents) = 2
    /\ events[1].op = "model"
    /\ events[4].op = "model"

C8_SecondReplyIgnored ==
    ModelCallCount >= 2 =>
        /\ ModelCallCount = 2
        /\ events[Len(events)].op = "model"
        /\ pc \in {"return", "done", "failed"}
        /\ \A i \in 1..Len(ToolEvents) : ToolEvents[i].id[1] = 1
        /\ ~ENABLED Invoke1 /\ ~ENABLED LoopStep /\ ~ENABLED Invoke2

C8_Witness ==
    /\ pc = "done"
    /\ messages[Len(messages)].tool_calls # <<>>
    /\ messages[Len(messages)].tool_calls[1].name = "execute_code"
    /\ ModelCallCount = 2

(* C9: a failed model call or tool dispatch is attempted once, nothing of  *)
(* run executes after it, and run ends in failure returning nothing.       *)
C9_FailurePropagates ==
    error \in DispatchErrors \cup {"ModelError"} =>
        /\ pc = "failed"
        /\ returned = <<>>
        /\ events # <<>>
        /\ LET failing == events[Len(events)]
           IN  /\ failing.op = IF error = "ModelError" THEN "model" ELSE "tool"
               /\ failing.n = Len(messages)
               /\ Cardinality({i \in 1..Len(events) : events[i] = failing}) = 1
        /\ ~ENABLED Next

C9_Witness ==
    /\ pc = "failed"
    /\ error = "ModelError"
    /\ ModelCallCount = 2
    /\ Len(ToolEvents) >= 1

(* C10: after construction the object in _chat, the one run invokes, has   *)
(* the execute_code tool bound.                                            *)
C10_ToolBound == pc # "new" => "execute_code" \in chat.tools

====
